---- MODULE Spec2Model ----
(***************************************************************************)
(* A model of keynote-slides-freezer: the KeynoteSlidesFreezer class of    *)
(* keynote_slides_freezer/keynote_slides_freezer.py and the version script *)
(* version.py.                                                             *)
(*                                                                         *)
(* Python strings are sequences of one-character strings, so that split,   *)
(* startswith, lstrip, slicing and regular-expression matching are         *)
(* computed character by character.  None is the empty tuple and a value   *)
(* v held by an attribute that may be None is the one-element tuple <<v>>. *)
(***************************************************************************)
EXTENDS Integers, Sequences, FiniteSets, TLC

VARIABLES
    \* safe_text_item and the allow-list (SpecFont)
    fonts_as_text_arg, fonts_as_text, font, safe, fpc,
    \* get_git_version and update_version_in_init (SpecVersion)
    git, version, init_file, vpc,
    \* the paths process() derives from its arguments (SpecPath)
    doc_path_arg, out_path_arg, temp_dir_path, paths, ppc,
    \* the two cleaning passes over one slide (SpecClean)
    slide0, pdf_slide, text_slide, cpc,
    \* a run of process() against Keynote (Spec)
    deck, self, docs, front, fs, pasteboard, keyq, selection, pc, slidei,
    \* split_pdf over a pages folder an earlier run may have left (SpecSplit)
    earlier_pdf, pdf_file, pdf_pages_folder, pdf_page_paths, spc

fvars == <<fonts_as_text_arg, fonts_as_text, font, safe, fpc>>

gvars == <<git, version, init_file, vpc>>

avars == <<doc_path_arg, out_path_arg, temp_dir_path, paths, ppc>>

cvars == <<slide0, pdf_slide, text_slide, cpc>>

pvars == <<deck, self, docs, front, fs, pasteboard, keyq, selection, pc, slidei>>

svars == <<earlier_pdf, pdf_file, pdf_pages_folder, pdf_page_paths, spc>>

vars == <<fvars, gvars, avars, cvars, pvars, svars>>

(***************************************************************************)
(* Bounds of the model.                                                    *)
(***************************************************************************)
MaxFontLen == 3
MaxArgLen == 3
MaxListLen == 2
MaxCommits == 11
MaxNameLen == 3
MaxItems == 2
MaxSlides == 3

(***************************************************************************)
(* Python values.                                                          *)
(***************************************************************************)
None == <<>>
Some(v) == <<v>>
IsNone(x) == x = <<>>
Val(x) == x[1]

\* All sequences over S of length at most n.
SeqUpTo(S, n) == UNION {[1..k -> S] : k \in 0..n}

\* s[:n]
Take(s, n) == SubSeq(s, 1, IF n < Len(s) THEN n ELSE Len(s))

\* s[n:]  (n counted from 0)
Drop(s, n) == SubSeq(s, n + 1, Len(s))

\* str.startswith
startswith(s, p) == Len(p) <= Len(s) /\ SubSeq(s, 1, Len(p)) = p

\* str.find(c): the 1-based index of the first c in s, 0 when there is none.
RECURSIVE find(_, _)
find(s, c) ==
    IF s = <<>> THEN 0
    ELSE IF Head(s) = c THEN 1
    ELSE LET r == find(Tail(s), c) IN IF r = 0 THEN 0 ELSE r + 1

\* str.split(c): the list of the pieces between the occurrences of c;
\* "".split(c) is [""].
RECURSIVE split(_, _)
split(s, c) ==
    LET i == find(s, c) IN
    IF i = 0 THEN <<s>>
    ELSE <<SubSeq(s, 1, i - 1)>> \o split(Drop(s, i), c)

(***************************************************************************)
(* safe_text_item and the allow-list that process() builds.                *)
(***************************************************************************)
\* process(), lines 383-387: a str argument is split at its commas, any
\* other argument is turned into a list.
ProcessFontsAsText(arg) ==
    IF arg.isstr THEN split(arg.val, ",") ELSE arg.val

\* safe_text_item: item.object_text.font.get() is fnt.
safe_text_item(fnt, allowed) ==
    LET cut == split(fnt, "-")[1] IN
    \E i \in 1..Len(allowed) : startswith(cut, allowed[i])

FontChars == {"R", "M", "-"}
ArgChars == {"R", "M", ","}
NameChars == {"R", "M"}

\* The values process() accepts for fonts_as_text: a str, or a list or tuple
\* of str.
FontArgs ==
    {[isstr |-> TRUE, val |-> s] : s \in SeqUpTo(ArgChars, MaxArgLen)}
    \cup {[isstr |-> FALSE, val |-> l] :
            l \in SeqUpTo(SeqUpTo(NameChars, MaxListLen) \ {<<>>}, MaxListLen)}

FontStart ==
    /\ fonts_as_text_arg \in FontArgs
    /\ font \in SeqUpTo(FontChars, MaxFontLen)
    /\ fonts_as_text = None
    /\ safe = None
    /\ fpc = "start"

FontIdle ==
    /\ fonts_as_text_arg = [isstr |-> TRUE, val |-> <<>>]
    /\ font = <<>>
    /\ fonts_as_text = None
    /\ safe = None
    /\ fpc = "idle"

\* process(), lines 383-387.
FontProcess ==
    /\ fpc = "start"
    /\ fonts_as_text' = Some(ProcessFontsAsText(fonts_as_text_arg))
    /\ fpc' = "listed"
    /\ UNCHANGED <<fonts_as_text_arg, font, safe>>
    /\ UNCHANGED <<gvars, avars, cvars, pvars, svars>>

\* safe_text_item(item), called from clean_items.
FontSafeTextItem ==
    /\ fpc = "listed"
    /\ safe' = Some(safe_text_item(font, Val(fonts_as_text)))
    /\ fpc' = "checked"
    /\ UNCHANGED <<fonts_as_text_arg, fonts_as_text, font>>
    /\ UNCHANGED <<gvars, avars, cvars, pvars, svars>>

FontNext == FontProcess \/ FontSafeTextItem


\* The font name cut at its first hyphen.
CutAtHyphen(fnt) ==
    LET i == find(fnt, "-") IN IF i = 0 THEN fnt ELSE SubSeq(fnt, 1, i - 1)

\* C2: safe_text_item returns True exactly when the font name, cut at its
\* first hyphen, is one of the names of the allow-list process() built.
C2_SafeIffFamilyInList ==
    fpc = "checked" =>
        (Val(safe) <=>
            \E i \in 1..Len(Val(fonts_as_text)) :
                Val(fonts_as_text)[i] = CutAtHyphen(font))

(***************************************************************************)
(* version.py: get_git_version and update_version_in_init.                 *)
(***************************************************************************)
Digits == {"0", "1", "2", "3", "4", "5", "6", "7", "8", "9"}
HexDigits == Digits \cup {"a", "b", "c", "d", "e", "f"}

DigitOf(d) ==
    CASE d = 0 -> "0" [] d = 1 -> "1" [] d = 2 -> "2" [] d = 3 -> "3"
      [] d = 4 -> "4" [] d = 5 -> "5" [] d = 6 -> "6" [] d = 7 -> "7"
      [] d = 8 -> "8" [] d = 9 -> "9"

\* The decimal numeral git prints for a count.
RECURSIVE Decimal(_)
Decimal(n) ==
    IF n < 10 THEN <<DigitOf(n)>> ELSE Decimal(n \div 10) \o <<DigitOf(n % 10)>>

\* str.lstrip(c): every leading c is dropped.
RECURSIVE lstrip(_, _)
lstrip(s, c) ==
    IF s # <<>> /\ Head(s) = c THEN lstrip(Tail(s), c) ELSE s

\* What the git commands of get_git_version print, by the state of the
\* checkout.  kind is "no_git" (subprocess.run raises: there is no git
\* executable), "no_repo" (every git command fails and prints nothing on
\* stdout), "no_tags", "on_tag" or "ahead".
GitDescribeOk(g) == g.kind \in {"on_tag", "ahead"}
GitRevParseHead(g) == IF g.kind = "no_repo" THEN <<>> ELSE g.commit
GitRevListCountHead(g) == IF g.kind = "no_repo" THEN <<>> ELSE Decimal(g.count)
GitRevListCountSinceTag(g) == Decimal(g.ahead)

\* get_git_version(), lines 13-79.
get_git_version(g) ==
    IF g.kind = "no_git" THEN <<"0", ".", "0", ".", "0", "+">>
                              \o <<"u", "n", "k", "n", "o", "w", "n">>
    ELSE IF GitDescribeOk(g) THEN
        LET latest_tag == g.tag
            current_commit == GitRevParseHead(g)
            clean_tag == lstrip(latest_tag, "v")
        IN  IF g.kind = "on_tag" THEN clean_tag
            ELSE clean_tag \o <<".", "d", "e", "v">>
                    \o GitRevListCountSinceTag(g) \o <<"+">>
                    \o Take(current_commit, 7)
    ELSE <<"0", ".", "0", ".", "0", ".", "d", "e", "v">>
            \o GitRevListCountHead(g) \o <<"+">> \o Take(GitRevParseHead(g), 7)

\* update_version_in_init(), lines 87-98: re.sub replaces the quoted value
\* of every __version__ assignment of the file; a file that is not there is
\* left alone.  The file is the list of its lines, an assignment line being
\* [key |-> "__version__", value |-> the quoted text].
update_version_in_init(f, v) ==
    IF ~f.exists THEN f
    ELSE [f EXCEPT !.content =
            [i \in 1..Len(f.content) |->
                IF f.content[i].key = "__version__"
                THEN [f.content[i] EXCEPT !.value = v]
                ELSE f.content[i]]]

\* tests/test_version.py, lines 25-27: the value of the first __version__
\* assignment of __init__.py, None when there is none.
ReadVersion(f) ==
    LET idx == {i \in 1..Len(f.content) : f.content[i].key = "__version__"} IN
    IF ~f.exists \/ idx = {} THEN None
    ELSE Some(f.content[CHOOSE i \in idx : \A j \in idx : i <= j].value)

\* (0|[1-9]\d*)
IsNumber(s) ==
    /\ s # <<>>
    /\ \A i \in 1..Len(s) : s[i] \in Digits
    /\ (Len(s) > 1 => s[1] # "0")

\* \.dev\d+\+[a-f0-9]+
IsDevSuffix(s) ==
    /\ Len(s) >= 7
    /\ SubSeq(s, 1, 4) = <<".", "d", "e", "v">>
    /\ \E p \in 6..(Len(s) - 1) :
        /\ s[p] = "+"
        /\ \A i \in 5..(p - 1) : s[i] \in Digits
        /\ \A i \in (p + 1)..Len(s) : s[i] \in HexDigits

\* tests/test_version.py, line 32: the semver pattern
\* ^(0|[1-9]\d*)\.(0|[1-9]\d*)\.(0|[1-9]\d*)(?:\.dev\d+\+[a-f0-9]+)?$
SemverMatch(s) ==
    \E a \in 1..Len(s) : \E b \in (a + 1)..Len(s) : \E c \in b..Len(s) :
        /\ s[a] = "." /\ s[b] = "."
        /\ IsNumber(SubSeq(s, 1, a - 1))
        /\ IsNumber(SubSeq(s, a + 1, b - 1))
        /\ IsNumber(SubSeq(s, b + 1, c))
        /\ (c = Len(s) \/ IsDevSuffix(SubSeq(s, c + 1, Len(s))))

\* The tags of the checkout: v<major>.<minor>.<patch> or the bare numbers.
Tags ==
    { <<"v", "1", ".", "2", ".", "3">>,
      <<"1", ".", "0", ".", "0">>,
      <<"v", "0", ".", "1", "0", ".", "0">> }

Commits ==
    { <<"c", "b", "d", "2", "1", "1", "f", "0", "9">>,
      <<"0", "0", "a", "7", "e", "4", "5", "5", "b">> }

GitStates ==
    {[kind |-> k, tag |-> <<>>, commit |-> <<>>, ahead |-> 0, count |-> 0] :
        k \in {"no_git", "no_repo"}}
    \cup {[kind |-> "no_tags", tag |-> <<>>, commit |-> c, ahead |-> 0,
           count |-> n] : c \in Commits, n \in 1..MaxCommits}
    \cup {[kind |-> "on_tag", tag |-> t, commit |-> c, ahead |-> 0,
           count |-> 1] : t \in Tags, c \in Commits}
    \cup {[kind |-> "ahead", tag |-> t, commit |-> c, ahead |-> n,
           count |-> n + 1] : t \in Tags, c \in Commits, n \in 1..MaxCommits}

\* keynote_slides_freezer/__init__.py, line 5.
OldVersion ==
    <<"0", ".", "0", ".", "0", ".", "d", "e", "v", "1", "0", "+">>
    \o <<"c", "b", "d", "2", "1", "1", "f">>

InitFiles ==
    { [exists |-> TRUE,
       content |-> <<[key |-> "__author__", value |-> <<>>],
                     [key |-> "__version__", value |-> OldVersion]>>],
      [exists |-> FALSE, content |-> <<>>] }

VersionStart ==
    /\ git \in GitStates
    /\ init_file \in InitFiles
    /\ version = None
    /\ vpc = "start"

VersionIdle ==
    /\ git = [kind |-> "no_git", tag |-> <<>>, commit |-> <<>>, ahead |-> 0,
              count |-> 0]
    /\ init_file = [exists |-> FALSE, content |-> <<>>]
    /\ version = None
    /\ vpc = "idle"

\* version.py run without an argument, lines 104-105: the version is printed.
VersionPrint ==
    /\ vpc = "start"
    /\ version' = Some(get_git_version(git))
    /\ vpc' = "printed"
    /\ UNCHANGED <<git, init_file>>
    /\ UNCHANGED <<fvars, avars, cvars, pvars, svars>>

\* version.py update, lines 102-103: update_version_in_init().
VersionUpdate ==
    /\ vpc = "start"
    /\ version' = Some(get_git_version(git))
    /\ init_file' = update_version_in_init(init_file, get_git_version(git))
    /\ vpc' = "updated"
    /\ UNCHANGED git
    /\ UNCHANGED <<fvars, avars, cvars, pvars, svars>>

VersionNext == VersionPrint \/ VersionUpdate

\* C8: every version string get_git_version returns, and every version
\* update_version_in_init writes into __init__.py, is non-empty and has the
\* form major.minor.patch[.dev<N>+<hex commit>].
C8_VersionIsSemver ==
    /\ (vpc \in {"printed", "updated"} =>
            Val(version) # <<>> /\ SemverMatch(Val(version)))
    /\ (vpc = "updated" /\ ~IsNone(ReadVersion(init_file)) =>
            SemverMatch(Val(ReadVersion(init_file))))

\* Where git runs in a checkout with commits, the version has the form.
VersionSemverWhenGitWorks ==
    vpc \in {"printed", "updated"} /\ git.kind \in {"no_tags", "on_tag", "ahead"}
        => SemverMatch(Val(version))

(***************************************************************************)
(* The paths of a run.  A path is [abs, parent, name]: whether it is       *)
(* absolute, the names of its directories and its final component, a str.  *)
(***************************************************************************)
\* The directory resolve() makes a relative path absolute against.
Cwd == <<"home", "me">>

\* Path.resolve(): lines 68, 83, 99.
resolve(p) == IF p.abs THEN p ELSE [p EXCEPT !.abs = TRUE, !.parent = Cwd \o @]

\* str.rfind(c): the 1-based index of the last c in s, 0 when there is none.
rfind(s, c) ==
    LET idx == {i \in 1..Len(s) : s[i] = c} IN
    IF idx = {} THEN 0 ELSE CHOOSE i \in idx : \A j \in idx : j <= i

\* PurePath.suffix: the final component from its last dot on, when that dot
\* is neither its first nor its last character.
suffix(name) ==
    LET i == rfind(name, ".") IN
    IF 1 < i /\ i < Len(name) THEN SubSeq(name, i, Len(name)) ELSE <<>>

\* PurePath.stem
stem(name) == SubSeq(name, 1, Len(name) - Len(suffix(name)))

\* PurePath.with_suffix
with_suffix(p, suf) == [p EXCEPT !.name = stem(p.name) \o suf]

\* Path(directory, name), directory a path.
joinpath(d, name) == [abs |-> d.abs, parent |-> d.parent \o <<d.name>>, name |-> name]

\* Path.parent as a directory path: compared by abs and the directory names.
SameDirectory(p, q) == p.abs = q.abs /\ p.parent = q.parent

DotKey == <<".", "k", "e", "y">>
DotPdf == <<".", "p", "d", "f">>

\* process(), line 389: out_path or Path(doc_path.parent, "<stem>-frozen.key").
DefaultOutPath(doc) ==
    [doc EXCEPT !.name = stem(doc.name) \o <<"-", "f", "r", "o", "z", "e", "n">> \o DotKey]

\* _copy_doc(suf), lines 81-83.
CopyDocPath(tmp, doc_path, suf) ==
    resolve(joinpath(tmp, stem(doc_path.name) \o <<"-">> \o suf \o DotKey))

\* export_doc_pdf(), line 305.
ExportPdfPath(doc_pdf_path) == with_suffix(doc_pdf_path, DotPdf)

\* split_pdf(), line 320.
PdfPagesFolder(tmp, pdf_path) == joinpath(tmp, stem(pdf_path.name))

PathNameChars == {"d", "."}

\* File names: every short name but the empty one, "." and "..".
FileNames ==
    (SeqUpTo(PathNameChars, MaxNameLen) \ {<<>>, <<".">>, <<".", ".">>})
    \cup {<<"d">> \o DotKey}

DocPaths ==
    {[abs |-> a, parent |-> d, name |-> n] :
        a \in BOOLEAN, d \in {<<"decks">>, <<"decks", "old">>}, n \in FileNames}

\* tempfile.TemporaryDirectory(), line 55: a fresh absolute directory (the
\* name of a directory is kept whole, as the names in parent are).
TempDirs ==
    {[abs |-> TRUE, parent |-> <<"tmp">>, name |-> n] :
        n \in {"tmpa1", "tmpb2"}}

OutPaths ==
    {None, Some([abs |-> TRUE, parent |-> <<"out">>, name |-> <<"o">> \o DotKey])}

NoPaths ==
    [doc_path |-> None, out_path |-> None, doc_pdf_path |-> None,
     pdf_path |-> None, pdf_pages_folder |-> None]

PathStart ==
    /\ doc_path_arg \in DocPaths
    /\ out_path_arg \in OutPaths
    /\ temp_dir_path \in TempDirs
    /\ paths = NoPaths
    /\ ppc = "start"

PathIdle ==
    /\ doc_path_arg = [abs |-> TRUE, parent |-> <<>>, name |-> <<"d">>]
    /\ out_path_arg = None
    /\ temp_dir_path = [abs |-> TRUE, parent |-> <<>>, name |-> "t"]
    /\ paths = NoPaths
    /\ ppc = "idle"

\* process(), lines 388-390, and open().
PathProcess ==
    /\ ppc = "start"
    /\ paths' = [paths EXCEPT
            !.out_path = IF IsNone(out_path_arg)
                         THEN Some(DefaultOutPath(doc_path_arg))
                         ELSE out_path_arg,
            !.doc_path = Some(resolve(doc_path_arg))]
    /\ ppc' = "opened"
    /\ UNCHANGED <<doc_path_arg, out_path_arg, temp_dir_path>>
    /\ UNCHANGED <<fvars, gvars, cvars, pvars, svars>>

\* open_doc_pdf(), line 119.
PathOpenDocPdf ==
    /\ ppc = "opened"
    /\ paths' = [paths EXCEPT !.doc_pdf_path =
            Some(CopyDocPath(temp_dir_path, Val(paths.doc_path), <<"p", "d", "f">>))]
    /\ ppc' = "copied"
    /\ UNCHANGED <<doc_path_arg, out_path_arg, temp_dir_path>>
    /\ UNCHANGED <<fvars, gvars, cvars, pvars, svars>>

\* export_doc_pdf(), line 305.
PathExportDocPdf ==
    /\ ppc = "copied"
    /\ paths' = [paths EXCEPT !.pdf_path =
            Some(ExportPdfPath(Val(paths.doc_pdf_path)))]
    /\ ppc' = "exported"
    /\ UNCHANGED <<doc_path_arg, out_path_arg, temp_dir_path>>
    /\ UNCHANGED <<fvars, gvars, cvars, pvars, svars>>

\* split_pdf(), line 320.
PathSplitPdf ==
    /\ ppc = "exported"
    /\ paths' = [paths EXCEPT !.pdf_pages_folder =
            Some(PdfPagesFolder(temp_dir_path, Val(paths.pdf_path)))]
    /\ ppc' = "split"
    /\ UNCHANGED <<doc_path_arg, out_path_arg, temp_dir_path>>
    /\ UNCHANGED <<fvars, gvars, cvars, pvars, svars>>

PathNext == PathProcess \/ PathOpenDocPdf \/ PathExportDocPdf \/ PathSplitPdf

\* C6: export_doc_pdf saves the PDF in the directory of the original Keynote
\* file, under the original's name with a .pdf extension.
C6_PdfBesideOriginal ==
    ~IsNone(paths.pdf_path) =>
        /\ SameDirectory(Val(paths.pdf_path), Val(paths.doc_path))
        /\ Val(paths.pdf_path).name = stem(Val(paths.doc_path).name) \o DotPdf

(***************************************************************************)
(* Slides and the cleaning passes.                                         *)
(*                                                                         *)
(* A slide is [skipped, title_showing, body_showing, text_items, shapes,   *)
(* charts, images, groups, lines, tables]: text_items and shapes are the   *)
(* lists Keynote returns for slide.text_items.get() and slide.shapes.get(),*)
(* charts, groups, lines and tables are counted, images is the list of the *)
(* slide's images.  An item is [id, kind, font, locked]; kind is           *)
(* "default_title_item" or "default_body_item" for the item whose          *)
(* reference reads so (lines 148, 152), "item" for any other.  A reference *)
(* to an element of a list is its index in the list, as appscript's        *)
(* references are.                                                         *)
(***************************************************************************)
\* seq without its element i; a reference past the end deletes nothing.
RemoveAt(seq, i) ==
    IF i \in 1..Len(seq)
    THEN SubSeq(seq, 1, i - 1) \o SubSeq(seq, i + 1, Len(seq))
    ELSE seq

\* list.reverse()
Reverse(seq) == [i \in 1..Len(seq) |-> seq[Len(seq) + 1 - i]]

\* clean_items, line 146.
ItemToDelete(item, allowed, keep_text_items) ==
    safe_text_item(item.font, allowed) # keep_text_items

\* clean_items, lines 144-157: the references collected in items_to_delete,
\* in the order of the list.
ItemsToDelete(items, allowed, keep_text_items) ==
    LET Mark(i) ==
            ItemToDelete(items[i], allowed, keep_text_items)
            /\ items[i].kind \notin {"default_body_item", "default_title_item"}
        RECURSIVE Collect(_)
        Collect(i) ==
            IF i > Len(items) THEN <<>>
            ELSE (IF Mark(i) THEN <<i>> ELSE <<>>) \o Collect(i + 1)
    IN  Collect(1)

\* clean_items, lines 148-155: body_showing (which = "default_body_item") or
\* title_showing after the first loop.
ShowingAfter(showing, items, which, allowed, keep_text_items) ==
    IF \E i \in 1..Len(items) :
            /\ ItemToDelete(items[i], allowed, keep_text_items)
            /\ items[i].kind = which
    THEN FALSE
    ELSE showing

\* clean_items, lines 159-161, had the test of item.locked been left out.
RECURSIVE DeleteIgnoringLocked(_, _)
DeleteIgnoringLocked(items, refs) ==
    IF refs = <<>> THEN items
    ELSE DeleteIgnoringLocked(RemoveAt(items, Head(refs)), Tail(refs))

\* clean_items, lines 159-161: each reference in turn, deleted unless the
\* item it refers to is locked.
RECURSIVE DeleteUnlocked(_, _)
DeleteUnlocked(items, refs) ==
    IF refs = <<>> THEN items
    ELSE LET i == Head(refs) IN
         DeleteUnlocked(
            IF i \in 1..Len(items) /\ ~items[i].locked
            THEN RemoveAt(items, i) ELSE items,
            Tail(refs))

\* clean_items(slide, items, keep_text_items), lines 130-161; which names
\* the list items was read from, "text_items" or "shapes".
clean_items(slide, which, allowed, keep_text_items) ==
    LET items == slide[which]
        refs == Reverse(ItemsToDelete(items, allowed, keep_text_items))
    IN  [slide EXCEPT
            !.body_showing = ShowingAfter(@, items, "default_body_item",
                                          allowed, keep_text_items),
            !.title_showing = ShowingAfter(@, items, "default_title_item",
                                           allowed, keep_text_items),
            ![which] = DeleteUnlocked(items, refs)]

\* clean_slide, lines 176-181.
DeleteGraphics(slide) ==
    [slide EXCEPT !.charts = 0, !.images = <<>>, !.groups = 0, !.lines = 0,
                  !.tables = 0]

\* clean_slide(doc, slide, keep_text_items), lines 174-181.
clean_slide(slide, allowed, keep_text_items) ==
    LET s1 == clean_items(slide, "text_items", allowed, keep_text_items)
        s2 == clean_items(s1, "shapes", allowed, keep_text_items)
    IN  IF keep_text_items THEN DeleteGraphics(s2) ELSE s2

\* clean_text_slide, line 197.
clean_text_slide(slide, allowed) == clean_slide(slide, allowed, TRUE)

\* clean_pdf_slide, line 212.
clean_pdf_slide(slide, allowed) == clean_slide(slide, allowed, FALSE)

\* The allow-list and the fonts of the slides of the model: Roboto is
\* allowed, R-b is a style of it, A is another family.
Allowed == <<<<"R">>>>
SafeFont == <<"R", "-", "b">>
UnsafeFont == <<"A">>

ItemVariants ==
    {[kind |-> "item", font |-> f, locked |-> l] :
        f \in {SafeFont, UnsafeFont}, l \in BOOLEAN}
    \cup {[kind |-> k, font |-> f, locked |-> FALSE] :
        k \in {"default_title_item", "default_body_item"},
        f \in {SafeFont, UnsafeFont}}

\* The items of the list, each with its id: its place on the slide.
WithIds(variants, first) ==
    [i \in 1..Len(variants) |->
        [id |-> first + i - 1, kind |-> variants[i].kind,
         font |-> variants[i].font, locked |-> variants[i].locked]]

\* An image of the deck itself (page is None) or a pasted page.
DeckImage == [page |-> None, back |-> FALSE]

Graphics ==
    { [charts |-> 0, images |-> <<>>, groups |-> 0, lines |-> 0, tables |-> 0],
      [charts |-> 0, images |-> <<DeckImage>>, groups |-> 0, lines |-> 0,
       tables |-> 0],
      [charts |-> 1, images |-> <<>>, groups |-> 1, lines |-> 1, tables |-> 1] }

MakeSlide(skipped, ts, bs, t, s, g) ==
    [skipped |-> skipped, title_showing |-> ts, body_showing |-> bs,
     text_items |-> WithIds(t, 1), shapes |-> WithIds(s, Len(t) + 1),
     charts |-> g.charts, images |-> g.images, groups |-> g.groups,
     lines |-> g.lines, tables |-> g.tables]

\* A slide has at most one default title item and one default body item.
OneDefaultEach(t, s) ==
    \A k \in {"default_title_item", "default_body_item"} :
        Cardinality({i \in 1..Len(t) : t[i].kind = k})
        + Cardinality({i \in 1..Len(s) : s[i].kind = k}) <= 1

\* Every slide of at most MaxItems text items and shapes: the items in
\* order, the first k of them text items and the others shapes.
Slides ==
    {MakeSlide(FALSE, ts, bs, SubSeq(x[1], 1, x[2]),
               SubSeq(x[1], x[2] + 1, Len(x[1])), g) :
        ts \in BOOLEAN, bs \in BOOLEAN, g \in Graphics,
        x \in {y \in SeqUpTo(ItemVariants, MaxItems) \X (0..MaxItems) :
                    y[2] <= Len(y[1]) /\ OneDefaultEach(y[1], <<>>)}}

CleanStart ==
    /\ slide0 \in Slides
    /\ pdf_slide = slide0
    /\ text_slide = slide0
    /\ cpc = "pdf"

CleanIdle ==
    /\ slide0 = <<>> /\ pdf_slide = <<>> /\ text_slide = <<>> /\ cpc = "idle"

\* process_doc_pdf, lines 228-229: clean_pdf_slide on the slide of the
\* vector copy.
CleanPdfSlide ==
    /\ cpc = "pdf"
    /\ pdf_slide' = clean_pdf_slide(pdf_slide, Allowed)
    /\ cpc' = "text"
    /\ UNCHANGED <<slide0, text_slide>>
    /\ UNCHANGED <<fvars, gvars, avars, pvars, svars>>

\* process_doc_text, line 245: clean_text_slide on the slide of the text copy.
CleanTextSlide ==
    /\ cpc = "text"
    /\ text_slide' = clean_text_slide(text_slide, Allowed)
    /\ cpc' = "done"
    /\ UNCHANGED <<slide0, pdf_slide>>
    /\ UNCHANGED <<fvars, gvars, avars, pvars, svars>>

CleanNext == CleanPdfSlide \/ CleanTextSlide

\* The text items and shapes of a slide.
ItemsOf(slide) ==
    {slide.text_items[i] : i \in 1..Len(slide.text_items)}
    \cup {slide.shapes[i] : i \in 1..Len(slide.shapes)}

\* The items of a slide that show: a default title or body item shows when
\* the slide's title_showing or body_showing is set.
Showing(slide) ==
    {it \in ItemsOf(slide) :
        CASE it.kind = "default_title_item" -> slide.title_showing
          [] it.kind = "default_body_item" -> slide.body_showing
          [] OTHER -> TRUE}

IsSafe(it) == safe_text_item(it.font, Allowed)

GraphicsOf(slide) ==
    [charts |-> slide.charts, images |-> slide.images, groups |-> slide.groups,
     lines |-> slide.lines, tables |-> slide.tables]

NoGraphics ==
    [charts |-> 0, images |-> <<>>, groups |-> 0, lines |-> 0, tables |-> 0]

\* C3: after the cleaning of the vector copy no safe text item shows on the
\* slide, and every item that is not a safe text item (charts, images,
\* groups, lines and tables included) is still on it.
C3_VectorCopyHasNoSafeText ==
    cpc \in {"text", "done"} =>
        /\ \A it \in Showing(pdf_slide) : ~IsSafe(it)
        /\ \A it \in Showing(slide0) : ~IsSafe(it) => it \in Showing(pdf_slide)
        /\ GraphicsOf(pdf_slide) = GraphicsOf(slide0)

\* C4: after clean_text_slide the only items left showing on the slide are
\* safe text items: no unsafe text item or shape, no chart, image, group,
\* line or table.
C4_TextCopyHasOnlySafeText ==
    cpc = "done" =>
        /\ \A it \in Showing(text_slide) : IsSafe(it)
        /\ GraphicsOf(text_slide) = NoGraphics

\* What clean_items leaves of a list: every item but the marked, unlocked
\* ones that are no default title or body item.
KeptOf(items, keep_text_items) ==
    SelectSeq(items,
        LAMBDA it : ~(/\ (IsSafe(it) # keep_text_items)
                      /\ it.kind = "item"
                      /\ ~it.locked))

\* A default item of the given kind is marked for removal.
MarkedDefault(slide, kind, keep_text_items) ==
    \E it \in ItemsOf(slide) : it.kind = kind /\ (IsSafe(it) # keep_text_items)

\* C9 for one cleaning of a slide, from before to after: the showing flags
\* are cleared exactly for the marked default items, and of each list the
\* marked, unlocked, non-default items are deleted and nothing else.
CleanItemsContract(before, after, keep_text_items) ==
    /\ after.text_items = KeptOf(before.text_items, keep_text_items)
    /\ after.shapes = KeptOf(before.shapes, keep_text_items)
    /\ after.title_showing =
        (before.title_showing
            /\ ~MarkedDefault(before, "default_title_item", keep_text_items))
    /\ after.body_showing =
        (before.body_showing
            /\ ~MarkedDefault(before, "default_body_item", keep_text_items))

C13_PassesPartitionItems ==
    cpc = "done" =>
        \A it \in Showing(slide0) :
            (it \in Showing(text_slide)) # (it \in Showing(pdf_slide))

(***************************************************************************)
(* split_pdf.  A PDF is the sequence of its pages; a folder is the set of  *)
(* its files, each a name and the PDF page it holds; None is a folder that *)
(* does not exist.                                                         *)
(***************************************************************************)
MaxPages == 3

\* f"{n:04}": the decimal numeral of n, padded with zeros on the left to at
\* least four characters.
Format04(n) ==
    LET d == Decimal(n) IN
    IF Len(d) >= 4 THEN d ELSE [k \in 1..(4 - Len(d)) |-> "0"] \o d

\* Line 331: the file name of page i (0-based), f"{i+1:04}.pdf".
PagePdfName(i) == Format04(i + 1) \o DotPdf

\* Lines 321-323 with the rmtree left out: mkdir(exist_ok=True) keeps a
\* folder that exists as it is.
FolderKept(folder) == IF IsNone(folder) THEN {} ELSE Val(folder)

\* Lines 321-323: a folder that exists is removed with what it holds
\* (shutil.rmtree; a removal the file system refuses is not modelled), then
\* mkdir makes the folder, empty.
FolderMadeAnew(folder) == {}

\* page_pdf_doc.save(page_pdf_path), line 336: the file is written, in
\* place of a file of that name.
SaveFile(folder, name, page) ==
    {f \in folder : f.name # name} \cup {[name |-> name, page |-> page]}

\* The loop of lines 329-340, from page i (0-based) on: page i of the PDF
\* (insert_pdf from_page=i to_page=i) is saved under its name and the name
\* appended to pdf_page_paths.
RECURSIVE SplitLoop(_, _, _, _)
SplitLoop(i, pdf, folder, page_paths) ==
    IF i >= Len(pdf) THEN [folder |-> folder, pdf_page_paths |-> page_paths]
    ELSE SplitLoop(i + 1, pdf,
                   SaveFile(folder, PagePdfName(i), pdf[i + 1]),
                   Append(page_paths, PagePdfName(i)))

\* split_pdf(), lines 320-343, on the pages folder as it is found and the
\* exported PDF: the folder and pdf_page_paths it leaves.
split_pdf(folder, pdf) == SplitLoop(0, pdf, FolderMadeAnew(folder), <<>>)

PageContents == {"p", "q"}

\* The PDFs split_pdf is given: up to MaxPages pages.
Pdfs == UNION {[1..n -> PageContents] : n \in 0..MaxPages}

\* The pages folder is in the temporary directory of the instance, so what
\* it holds was put there by an earlier split_pdf of the same instance (a
\* run that failed before cleanup() leaves it).
SplitStart ==
    /\ earlier_pdf \in {None} \cup {Some(p) : p \in Pdfs}
    /\ pdf_file \in Pdfs
    /\ pdf_pages_folder =
           IF IsNone(earlier_pdf) THEN None
           ELSE Some(split_pdf(None, Val(earlier_pdf)).folder)
    /\ pdf_page_paths = None
    /\ spc = "split_pdf"

SplitIdle ==
    /\ earlier_pdf = <<>> /\ pdf_file = <<>> /\ pdf_pages_folder = <<>>
    /\ pdf_page_paths = <<>> /\ spc = "idle"

\* split_pdf(), lines 313-343.
SplitPdfCall ==
    /\ spc = "split_pdf"
    /\ LET r == split_pdf(pdf_pages_folder, pdf_file) IN
        /\ pdf_pages_folder' = Some(r.folder)
        /\ pdf_page_paths' = Some(r.pdf_page_paths)
    /\ spc' = "done"
    /\ UNCHANGED <<earlier_pdf, pdf_file>>
    /\ UNCHANGED <<fvars, gvars, avars, cvars, pvars>>

SplitNext == SplitPdfCall

\* The value of a digit character, and of a numeral.
DigitValue(c) == CHOOSE d \in 0..9 : DigitOf(d) = c

RECURSIVE NumeralValue(_)
NumeralValue(s) ==
    IF s = <<>> THEN 0
    ELSE 10 * NumeralValue(Take(s, Len(s) - 1)) + DigitValue(s[Len(s)])

\* name is the 4-digit number n followed by ".pdf".
IsFourDigitPdfName(name, n) ==
    /\ Len(name) = 4 + Len(DotPdf)
    /\ \A k \in 1..4 : name[k] \in Digits
    /\ NumeralValue(Take(name, 4)) = n
    /\ Drop(name, 4) = DotPdf

NoSelf ==
    [doc_path |-> None, doc_pdf |-> None, doc_pdf_path |-> None,
     doc_text |-> None, doc_text_path |-> None, pdf_page_paths |-> None,
     fonts_as_text |-> None, out_path |-> None, pdf_path |-> None,
     pdf_pages_folder |-> None]

ClosedDoc == [open |-> FALSE, slides |-> <<>>, current_slide |-> 0]

\* app.open(file), lines 109 and 120: the document as the file holds it.
OpenedDoc(file) == [open |-> TRUE, slides |-> file, current_slide |-> 1]

\* The slides of the decks of the model: a safe and an unsafe text item,
\* with or without an image, skipped or not.
DeckSlides ==
    {MakeSlide(sk, TRUE, TRUE,
               <<[kind |-> "item", font |-> SafeFont, locked |-> FALSE],
                 [kind |-> "item", font |-> UnsafeFont, locked |-> FALSE]>>,
               <<>>, g) :
        sk \in BOOLEAN,
        g \in {gg \in Graphics : gg.charts = 0}}

Decks == UNION {[1..n -> DeckSlides] : n \in 1..MaxSlides}

\* export(as PDF, skipped_slides False), lines 306-311: one page for each
\* slide that is not skipped, in the order of the slides.  A page is
\* [slide |-> the number of the slide it renders].
RECURSIVE ExportedPagesFrom(_, _)
ExportedPagesFrom(slides, j) ==
    IF j > Len(slides) THEN <<>>
    ELSE (IF slides[j].skipped THEN <<>> ELSE <<[slide |-> j]>>)
         \o ExportedPagesFrom(slides, j + 1)

ExportedPages(slides) == ExportedPagesFrom(slides, 1)

\* cleanup(), lines 353-356, had doc_text been left as it was.
CleanupSelfKeepsDocText(s) ==
    [s EXCEPT !.doc_path = None, !.doc_pdf = None, !.fonts_as_text = None]

\* cleanup(), lines 353-356: the attributes it sets to None.
CleanupSelf(s) ==
    [s EXCEPT !.doc_path = None, !.doc_text = None, !.doc_pdf = None,
              !.fonts_as_text = None]

\* _copy_doc(suf), had the copy been written at out_path and not in the
\* temporary directory.
CopyDocAtOutPath(suf) == IF suf = "text" THEN "out" ELSE "pdf_key"

\* _copy_doc(suf), lines 81-87: the file the copy is written to,
\* <temp_dir>/<stem>-<suf>.key.
CopyDocFile(suf) == IF suf = "text" THEN "text_key" ELSE "pdf_key"

RunStart ==
    /\ deck \in Decks
    /\ self = NoSelf
    /\ docs = [doc_pdf |-> ClosedDoc, doc_text |-> ClosedDoc]
    /\ front = ""
    /\ fs = [original |-> Some(deck), pdf_key |-> None, text_key |-> None,
             pdf |-> None, pages |-> None, out |-> None]
    /\ pasteboard = None
    /\ keyq = <<>>
    /\ selection = None
    /\ pc = "process"
    /\ slidei = 0

RunIdle ==
    /\ deck = <<>> /\ self = <<>> /\ docs = <<>> /\ front = "" /\ fs = <<>>
    /\ pasteboard = <<>> /\ keyq = <<>> /\ selection = <<>> /\ pc = "idle"
    /\ slidei = 0

\* process(), lines 383-390.
Process ==
    /\ pc = "process"
    /\ self' = [self EXCEPT
            !.fonts_as_text =
                Some(ProcessFontsAsText([isstr |-> TRUE, val |-> <<"R">>])),
            !.out_path = Some("out"),
            !.doc_path = Some("original")]
    /\ pc' = "open_doc_pdf"
    /\ UNCHANGED <<deck, docs, front, fs, pasteboard, keyq, selection, slidei>>
    /\ UNCHANGED <<fvars, gvars, avars, cvars, svars>>

\* process_doc_pdf(), lines 224-225: open_doc_pdf() and activate().
OpenDocPdf ==
    /\ pc = "open_doc_pdf"
    /\ fs' = [fs EXCEPT ![CopyDocFile("pdf")] = fs[Val(self.doc_path)]]
    /\ self' = [self EXCEPT !.doc_pdf_path = Some(CopyDocFile("pdf")),
                            !.doc_pdf = Some("doc_pdf")]
    /\ docs' = [docs EXCEPT !.doc_pdf = OpenedDoc(Val(fs[Val(self.doc_path)]))]
    /\ front' = "doc_pdf"
    /\ slidei' = 0
    /\ pc' = "clean_pdf"
    /\ UNCHANGED <<deck, pasteboard, keyq, selection>>
    /\ UNCHANGED <<fvars, gvars, avars, cvars, svars>>

\* process_doc_pdf(), lines 228-229: one turn of the loop, clean_pdf_slide
\* on slide slidei + 1 (clean_slide makes it the current slide, line 173).
CleanPdfSlideStep ==
    /\ pc = "clean_pdf"
    /\ slidei < Len(docs.doc_pdf.slides)
    /\ docs' = [docs EXCEPT
            !.doc_pdf.current_slide = slidei + 1,
            !.doc_pdf.slides[slidei + 1] =
                clean_pdf_slide(@, Val(self.fonts_as_text))]
    /\ slidei' = slidei + 1
    /\ UNCHANGED <<deck, self, front, fs, pasteboard, keyq, selection, pc>>
    /\ UNCHANGED <<fvars, gvars, avars, cvars, svars>>

\* process_doc_pdf(), line 231: export_doc_pdf().
ExportDocPdf ==
    /\ pc = "clean_pdf"
    /\ slidei = Len(docs.doc_pdf.slides)
    /\ self' = [self EXCEPT !.pdf_path = Some("pdf")]
    /\ fs' = [fs EXCEPT !.pdf = Some(ExportedPages(docs.doc_pdf.slides))]
    /\ pc' = "split_pdf"
    /\ UNCHANGED <<deck, docs, front, pasteboard, keyq, selection, slidei>>
    /\ UNCHANGED <<fvars, gvars, avars, cvars, svars>>

\* split_pdf(), lines 320-343: the pages folder is made anew and holds page
\* i of the PDF in its file number i; pdf_page_paths lists the files.
SplitPdf ==
    /\ pc = "split_pdf"
    /\ LET r == split_pdf(fs.pages, Val(fs[Val(self.pdf_path)])) IN
        /\ fs' = [fs EXCEPT !.pages = Some(r.folder)]
        /\ self' = [self EXCEPT
                !.pdf_pages_folder = Some("pages"),
                !.pdf_page_paths = Some(r.pdf_page_paths)]
    /\ pc' = "open_doc_text"
    /\ UNCHANGED <<deck, docs, front, pasteboard, keyq, selection, slidei>>
    /\ UNCHANGED <<fvars, gvars, avars, cvars, svars>>

\* process_doc_text(), lines 242-243: open_doc_text() and activate().
OpenDocText ==
    /\ pc = "open_doc_text"
    /\ fs' = [fs EXCEPT ![CopyDocFile("text")] = fs[Val(self.doc_path)]]
    /\ self' = [self EXCEPT !.doc_text_path = Some(CopyDocFile("text")),
                            !.doc_text = Some("doc_text")]
    /\ docs' = [docs EXCEPT !.doc_text = OpenedDoc(Val(fs[Val(self.doc_path)]))]
    /\ front' = "doc_text"
    /\ slidei' = 0
    /\ pc' = "clean_text"
    /\ UNCHANGED <<deck, pasteboard, keyq, selection>>
    /\ UNCHANGED <<fvars, gvars, avars, cvars, svars>>

\* process_doc_text(), lines 245-247: clean_text_slide on slide slidei + 1,
\* which is made the current slide.  A selected image of the slide is
\* deleted with the others.
CleanTextSlideStep ==
    /\ pc = "clean_text"
    /\ slidei < Len(docs.doc_text.slides)
    /\ docs' = [docs EXCEPT
            !.doc_text.current_slide = slidei + 1,
            !.doc_text.slides[slidei + 1] =
                clean_text_slide(@, Val(self.fonts_as_text))]
    /\ selection' = IF ~IsNone(selection) /\ Val(selection).slide = slidei + 1
                    THEN None ELSE selection
    /\ pc' = "pasteboard"
    /\ UNCHANGED <<deck, self, front, fs, pasteboard, keyq, slidei>>
    /\ UNCHANGED <<fvars, gvars, avars, cvars, svars>>

\* process_doc_text(), line 251, when there is no page for the slide:
\* pdf_page_paths[slidei] raises IndexError and process() ends there.
PagePathIndexError ==
    /\ pc = "pasteboard"
    /\ slidei + 1 > Len(Val(self.pdf_page_paths))
    /\ pc' = "failed"
    /\ UNCHANGED <<deck, self, docs, front, fs, pasteboard, keyq, selection,
                   slidei>>
    /\ UNCHANGED <<fvars, gvars, avars, cvars, svars>>

\* process_doc_text(), lines 251-257: the page file of the slide is put on
\* the pasteboard.
SetPasteboard ==
    /\ pc = "pasteboard"
    /\ slidei + 1 <= Len(Val(self.pdf_page_paths))
    /\ LET pdf_page_path == Val(self.pdf_page_paths)[slidei + 1] IN
        pasteboard' =
            Some((CHOOSE f \in Val(fs.pages) : f.name = pdf_page_path).page)
    /\ pc' = "keystroke_v"
    /\ UNCHANGED <<deck, self, docs, front, fs, keyq, selection, slidei>>
    /\ UNCHANGED <<fvars, gvars, avars, cvars, svars>>

\* process_doc_text(), lines 258-260: System Events posts Cmd+V.
KeystrokeV ==
    /\ pc = "keystroke_v"
    /\ keyq' = Append(keyq, "v")
    /\ pc' = "images_get"
    /\ UNCHANGED <<deck, self, docs, front, fs, pasteboard, selection, slidei>>
    /\ UNCHANGED <<fvars, gvars, avars, cvars, svars>>

\* process_doc_text(), lines 261-262 with no image on the slide: the turn
\* of the loop ends.
ImagesGetNone ==
    /\ pc = "images_get"
    /\ docs.doc_text.slides[slidei + 1].images = <<>>
    /\ slidei' = slidei + 1
    /\ pc' = "clean_text"
    /\ UNCHANGED <<deck, self, docs, front, fs, pasteboard, keyq, selection>>
    /\ UNCHANGED <<fvars, gvars, avars, cvars, svars>>

\* process_doc_text(), lines 261-264: the first image of the slide is made
\* the selection.
ImagesGetSelect ==
    /\ pc = "images_get"
    /\ docs.doc_text.slides[slidei + 1].images # <<>>
    /\ selection' = Some([slide |-> slidei + 1, image |-> 1])
    /\ pc' = "keystroke_b"
    /\ UNCHANGED <<deck, self, docs, front, fs, pasteboard, keyq, slidei>>
    /\ UNCHANGED <<fvars, gvars, avars, cvars, svars>>

\* process_doc_text(), lines 265-269: System Events posts Cmd+Shift+B, and
\* the turn of the loop ends.
KeystrokeB ==
    /\ pc = "keystroke_b"
    /\ keyq' = Append(keyq, "b")
    /\ slidei' = slidei + 1
    /\ pc' = "clean_text"
    /\ UNCHANGED <<deck, self, docs, front, fs, pasteboard, selection>>
    /\ UNCHANGED <<fvars, gvars, avars, cvars, svars>>

\* Keynote takes a keystroke from its event queue.  Cmd+V pastes the
\* pasteboard's page as an image on top of the current slide of the front
\* document and selects it; Cmd+Shift+B sends the selected image to the
\* back.  With no document open the keystroke does nothing.
KeynoteHandleKey ==
    /\ pc # "idle"
    /\ keyq # <<>>
    /\ keyq' = Tail(keyq)
    /\ IF front = "" \/ ~docs[front].open
       THEN UNCHANGED <<docs, selection>>
       ELSE LET cur == docs[front].current_slide
                imgs == docs[front].slides[cur].images
            IN  CASE Head(keyq) = "v" /\ ~IsNone(pasteboard) ->
                        /\ docs' = [docs EXCEPT ![front].slides[cur].images =
                                Append(imgs, [page |-> pasteboard, back |-> FALSE])]
                        /\ selection' = Some([slide |-> cur, image |-> Len(imgs) + 1])
                  [] Head(keyq) = "b" /\ ~IsNone(selection) ->
                        LET sel == Val(selection)
                            simgs == docs[front].slides[sel.slide].images
                        IN  /\ docs' = [docs EXCEPT
                                    ![front].slides[sel.slide].images =
                                        <<[simgs[sel.image] EXCEPT !.back = TRUE]>>
                                        \o RemoveAt(simgs, sel.image)]
                            /\ selection' = Some([sel EXCEPT !.image = 1])
                  [] OTHER -> UNCHANGED <<docs, selection>>
    /\ UNCHANGED <<deck, self, front, fs, pasteboard, pc, slidei>>
    /\ UNCHANGED <<fvars, gvars, avars, cvars, svars>>

\* cleanup(), lines 350-360.  close() is sent without its saving parameter
\* and save() is never sent (lines 349, 351): whether Keynote writes the
\* edits of a document to its file as it closes it is Keynote's choice.
Cleanup ==
    /\ pc = "clean_text"
    /\ slidei = Len(docs.doc_text.slides)
    /\ \E saved \in BOOLEAN :
        LET text_file == IF saved THEN Some(docs.doc_text.slides)
                         ELSE fs[Val(self.doc_text_path)]
        IN  fs' = [fs EXCEPT !.out = text_file, !.text_key = None,
                             !.pages = None, !.pdf_key = None, !.pdf = None]
    /\ docs' = [docs EXCEPT !.doc_pdf = ClosedDoc, !.doc_text = ClosedDoc]
    /\ front' = ""
    /\ selection' = None
    /\ self' = CleanupSelf(self)
    /\ pc' = "done"
    /\ UNCHANGED <<deck, pasteboard, keyq, slidei>>
    /\ UNCHANGED <<fvars, gvars, avars, cvars, svars>>

\* The steps of process() before cleanup(): a command sent to Keynote or to
\* System Events, or a file operation, can raise there.
StepsBeforeCleanup ==
    {"open_doc_pdf", "clean_pdf", "split_pdf", "open_doc_text", "pasteboard",
     "keystroke_v", "images_get", "keystroke_b"}

\* process(), lines 390-393: a step raises.  process() has no try, so the
\* exception leaves it and nothing of the run is undone.  (clean_text with
\* no slide left is the point where cleanup() starts.)
StepRaises ==
    /\ \/ pc \in StepsBeforeCleanup
       \/ pc = "clean_text" /\ slidei < Len(docs.doc_text.slides)
    /\ pc' = "failed"
    /\ UNCHANGED <<deck, self, docs, front, fs, pasteboard, keyq, selection,
                   slidei>>
    /\ UNCHANGED <<fvars, gvars, avars, cvars, svars>>

Next ==
    \/ Process
    \/ OpenDocPdf
    \/ CleanPdfSlideStep
    \/ ExportDocPdf
    \/ SplitPdf
    \/ OpenDocText
    \/ CleanTextSlideStep
    \/ PagePathIndexError
    \/ SetPasteboard
    \/ KeystrokeV
    \/ ImagesGetNone
    \/ ImagesGetSelect
    \/ KeystrokeB
    \/ KeynoteHandleKey
    \/ StepRaises
    \/ Cleanup

(***************************************************************************)
(* The claims about a run of process().                                    *)
(***************************************************************************)
\* The page rendered from slide i of the vector copy, pasted and sent to the
\* back.
BackgroundOf(i) == [page |-> Some([slide |-> i]), back |-> TRUE]

\* The text copy as process() means to leave it: every slide cleaned by
\* clean_text_slide, with its own background page behind the text.
FrozenDeck ==
    [i \in 1..Len(deck) |->
        [clean_text_slide(deck[i], Allowed) EXCEPT !.images = <<BackgroundOf(i)>>]]

\* C1: when process() returns normally the file at out_path exists and is
\* the text copy as edited in Keynote: on every slide the cleaned items and
\* the pasted background page.
C1_OutputIsFrozenDeck ==
    pc = "done" => ~IsNone(fs.out) /\ Val(fs.out) = FrozenDeck

\* C5: there is one background page per slide: pdf_page_paths has as many
\* pages as the text copy (a copy of the deck) has slides, and a page pasted
\* onto slide i of the text copy is the page rendered from slide i of the
\* vector copy.
C5_OnePagePerSlide ==
    /\ (~IsNone(self.pdf_page_paths) =>
            Len(Val(self.pdf_page_paths)) = Len(deck))
    /\ (docs.doc_text.open =>
            \A i \in 1..Len(docs.doc_text.slides) :
                \A n \in 1..Len(docs.doc_text.slides[i].images) :
                    LET image == docs.doc_text.slides[i].images[n] IN
                    ~IsNone(image.page) => Val(image.page).slide = i)

\* The per-document attributes that __init__ sets to None (lines 48-54).
PerDocumentAttributes ==
    {"doc_path", "doc_pdf", "doc_pdf_path", "doc_text", "doc_text_path",
     "pdf_page_paths", "fonts_as_text"}

C10_PasteLandsBeforeImagesGet ==
    /\ (pc = "images_get" =>
            \E n \in 1..Len(docs.doc_text.slides[slidei + 1].images) :
                docs.doc_text.slides[slidei + 1].images[n].page = pasteboard)
    /\ (pc \in {"clean_text", "pasteboard"} /\ docs.doc_text.open =>
            \A i \in 1..slidei :
                \E n \in 1..Len(docs.doc_text.slides[i].images) :
                    LET image == docs.doc_text.slides[i].images[n] IN
                    ~IsNone(image.page) /\ image.back)

\* The script's own state: what its steps read and write.
ScriptState == <<self, fs, pasteboard, pc, slidei>>

\* C11: process() runs its steps in sequence with no recovery: once a step
\* before cleanup() has failed no later step runs, and the file at out_path
\* is created by the final cleanup step alone, so a run that failed, or has
\* not reached the end of cleanup(), has created no output deck.
C11_OutputOnlyByCleanup ==
    [][ /\ (pc = "failed" => ScriptState' = ScriptState)
        /\ (fs'.out # fs.out => pc = "clean_text" /\ pc' = "done")
        /\ (pc' # "done" => IsNone(fs'.out))
        /\ (~IsNone(fs'.text_key) => ~IsNone(fs'.pages))
        /\ (~IsNone(fs'.out) => docs'.doc_pdf = ClosedDoc /\ docs'.doc_text = ClosedDoc) ]_vars

\* C11's case: a step has failed after the vector copy was exported and the
\* text copy opened and edited, and there is no output deck.
C11_Witness ==
    /\ pc = "failed"
    /\ ~IsNone(fs.pdf) /\ ~IsNone(fs.text_key)
    /\ docs.doc_text.open /\ docs.doc_text.slides # deck
    /\ IsNone(fs.out)

(***************************************************************************)
(* The specifications.                                                     *)
(***************************************************************************)
FontInit == FontStart /\ VersionIdle /\ PathIdle /\ CleanIdle /\ RunIdle
    /\ SplitIdle
SpecFont == FontInit /\ [][FontNext]_vars

VersionInit == FontIdle /\ VersionStart /\ PathIdle /\ CleanIdle /\ RunIdle
    /\ SplitIdle
SpecVersion == VersionInit /\ [][VersionNext]_vars

PathInit == FontIdle /\ VersionIdle /\ PathStart /\ CleanIdle /\ RunIdle
    /\ SplitIdle
SpecPath == PathInit /\ [][PathNext]_vars

CleanInit == FontIdle /\ VersionIdle /\ PathIdle /\ CleanStart /\ RunIdle
    /\ SplitIdle
SpecClean == CleanInit /\ [][CleanNext]_vars

SplitInit ==
    FontIdle /\ VersionIdle /\ PathIdle /\ CleanIdle /\ RunIdle /\ SplitStart
SpecSplit == SplitInit /\ [][SplitNext]_vars

Init == FontIdle /\ VersionIdle /\ PathIdle /\ CleanIdle /\ RunStart
    /\ SplitIdle
Spec == Init /\ [][Next]_vars

====
